---- MODULE Spec2Model ----
(***************************************************************************)
(* State-machine model of ec2_rightsizing_report.py: a sequential report   *)
(* script that lists EC2 and RDS instances, fetches CloudWatch metrics,    *)
(* classifies each instance against THRESHOLDS and audits unused volumes,  *)
(* snapshots and Elastic IPs.                                              *)
(*                                                                         *)
(* Numbers.  Python computes with floats; the model computes with exact    *)
(* rationals <<numerator, denominator>> in lowest terms (denominator > 0), *)
(* so the rounding of a float sum or product (at most one unit in the last *)
(* place, about 1e-7 bytes for 0.8 * storage_allocated) is not modelled.   *)
(* 0.8 * x and 0.1 * x are computed exactly by Python whenever the true    *)
(* product is a whole number of bytes.  Storage quantities are counted in  *)
(* MiB, so that 1024**3 bytes is 1024 MiB and every product stays inside   *)
(* TLC's integers.  Variables Python has not assigned yet hold 0, "" or an *)
(* empty list; the script never reads them before assigning them.         *)
(***************************************************************************)
EXTENDS Integers, Sequences, FiniteSets, TLC

VARIABLES
    pc,                  \* position of the script
    inflight,            \* provider calls issued and not yet answered
    failed,              \* a provider call has raised
    out,                 \* what has been printed, in order
    instances,           \* line 45, flattened in the order of lines 46-47
    ec2_i,               \* index of the instance the loop of lines 46-47 is at
    cpu, net_in, net_out, disk_read, disk_ops, net_total,
    status, notes,
    fetched,             \* <<metric, it had datapoints>> of each fetch answered
                         \* for the resource at hand
    dbs, db_i,           \* line 84 and the loop of line 85
    free_storage, storage_allocated,
    volumes,             \* line 117
    snapshots,           \* line 123
    attached_volume_ids, \* line 124
    unused_snapshots,    \* lines 126-129
    all_volumes,         \* the listing line 124 reads
    addresses,           \* line 136
    unassociated         \* line 137

vars == <<pc, inflight, failed, out, instances, ec2_i, cpu, net_in, net_out, disk_read,
          disk_ops, net_total, status, notes, fetched, dbs, db_i, free_storage,
          storage_allocated, volumes, snapshots, all_volumes,
          attached_volume_ids, unused_snapshots, addresses, unassociated>>

(***************************************************************************)
(* Bounds of the model.                                                    *)
(***************************************************************************)
MaxPoints == 2       \* datapoints in one metric answer
MaxInstances == 2    \* running instances the pipeline workload lists
MaxDBs == 2          \* database instances the pipeline workload lists
MaxVolumes == 2      \* volumes the audit workload lists
MaxSnapshots == 2    \* snapshots the audit workload lists
MaxAddresses == 2    \* Elastic IPs the audit workload lists

(***************************************************************************)
(* Configuration, lines 5-11 and 91.                                       *)
(***************************************************************************)
THRESHOLDS == [cpu |-> 40, network |-> 1000000, disk_ops |-> 100]

MiBPerGiB == 1024

(***************************************************************************)
(* Exact rational arithmetic standing for Python's float arithmetic.       *)
(***************************************************************************)
RECURSIVE GCD(_, _)
GCD(a, b) == IF b = 0 THEN a ELSE GCD(b, a % b)

Abs(n) == IF n < 0 THEN -n ELSE n

Rat(n, d) ==
    LET g == GCD(Abs(n), d)
    IN  <<n \div g, d \div g>>

RatOfInt(n) == <<n, 1>>

RatAdd(a, b) == Rat(a[1] * b[2] + b[1] * a[2], a[2] * b[2])

RatTimes(a, b) == Rat(a[1] * b[1], a[2] * b[2])

RatLess(a, b) == a[1] * b[2] < b[1] * a[2]

RECURSIVE SumSeq(_)
SumSeq(xs) == IF xs = <<>> THEN 0 ELSE Head(xs) + SumSeq(Tail(xs))

\* statistics.mean (line 3); it raises StatisticsError on an empty series,
\* which the callers below turn into the end of the run.
mean(xs) == Rat(SumSeq(xs), Len(xs))

(***************************************************************************)
(* get_metric, lines 20-36: the call it makes and what it returns.         *)
(***************************************************************************)
MetricCall(resource_id, metric_name, namespace, unit, dimension_name) ==
    [api        |-> "get_metric_statistics",
     Namespace  |-> namespace,
     MetricName |-> metric_name,
     Dimensions |-> <<dimension_name, resource_id>>,
     Period     |-> 86400,
     Statistics |-> "Average",
     Unit       |-> unit]

\* sorted(datapoints, key=lambda x: x['Timestamp']): a stable insertion sort.
RECURSIVE InsertByTimestamp(_, _)
InsertByTimestamp(dp, sorted) ==
    IF sorted = <<>> THEN <<dp>>
    ELSE IF dp.Timestamp < Head(sorted).Timestamp THEN <<dp>> \o sorted
    ELSE <<Head(sorted)>> \o InsertByTimestamp(dp, Tail(sorted))

RECURSIVE SortByTimestamp(_)
SortByTimestamp(dps) ==
    IF dps = <<>> THEN <<>>
    ELSE InsertByTimestamp(dps[Len(dps)], SortByTimestamp(SubSeq(dps, 1, Len(dps) - 1)))

\* response.get('Datapoints', []), line 35.
Datapoints(response) ==
    IF "Datapoints" \in DOMAIN response THEN response.Datapoints ELSE <<>>

\* line 36: the values of the statistic, oldest first.
get_metric(response) ==
    LET sorted == SortByTimestamp(Datapoints(response))
    IN  [i \in 1..Len(sorted) |-> sorted[i].Average]

\* Mutant: the `or [0]` is missing.
OrNothing(series) == series

\* `series or [0]`, lines 52-56 and 89-90.
OrZero(series) == IF series = <<>> THEN <<0>> ELSE series

(***************************************************************************)
(* The compute classifier, lines 58-73.                                    *)
(***************************************************************************)
\* ", ".join(notes)
RECURSIVE Join(_)
Join(ns) ==
    IF ns = <<>> THEN ""
    ELSE IF Len(ns) = 1 THEN Head(ns)
    ELSE Head(ns) \o ", " \o Join(Tail(ns))

\* Mutant: <= where the code has <.
IsLowOrEqual(value, threshold) == ~RatLess(RatOfInt(threshold), value)

\* value < THRESHOLDS[...], lines 63-70 and 96
IsLow(value, threshold) == RatLess(value, RatOfInt(threshold))

\* Mutant: the branch of lines 63-64 is missing.
ClassifyEC2NoOverprovisioned(c, n, d, status0, notes0) ==
    LET n1 == IF RatLess(c, RatOfInt(THRESHOLDS.cpu))
              THEN Append(notes0, "Low CPU") ELSE notes0
        n2 == IF RatLess(n, RatOfInt(THRESHOLDS.network))
              THEN Append(n1, "Low Network") ELSE n1
        n3 == IF RatLess(d, RatOfInt(THRESHOLDS.disk_ops))
              THEN Append(n2, "Low Disk Ops") ELSE n2
    IN  [status |-> IF n3 # <<>> THEN "Review: " \o Join(n3) ELSE status0,
         notes  |-> n3]

\* Lines 63-73, entered with the status and notes that lines 60-61 set.
ClassifyEC2(c, n, d, status0, notes0) ==
    IF IsLow(c, THRESHOLDS.cpu) /\ IsLow(n, THRESHOLDS.network)
       /\ IsLow(d, THRESHOLDS.disk_ops)
    THEN [status |-> "Overprovisioned", notes |-> notes0]
    ELSE LET n1 == IF IsLow(c, THRESHOLDS.cpu)
                   THEN Append(notes0, "Low CPU") ELSE notes0
             n2 == IF IsLow(n, THRESHOLDS.network)
                   THEN Append(n1, "Low Network") ELSE n1
             n3 == IF IsLow(d, THRESHOLDS.disk_ops)
                   THEN Append(n2, "Low Disk Ops") ELSE n2
         IN  [status |-> IF n3 # <<>> THEN "Review: " \o Join(n3) ELSE status0,
              notes  |-> n3]

(***************************************************************************)
(* The database classifier, lines 91-104.                                  *)
(***************************************************************************)
\* db.get('AllocatedStorage', 0) * 1024**3, line 91, in MiB.
AllocatedOf(db) ==
    (IF "AllocatedStorage" \in DOMAIN db THEN db.AllocatedStorage ELSE 0) * MiBPerGiB

\* 0.8 * storage_allocated and 0.1 * storage_allocated, lines 98 and 100.
Fraction(tenths, allocated) == RatTimes(Rat(tenths, 10), RatOfInt(allocated))

\* Mutant: >= where the code has >.
StorageUnderutilizedOrEqual(free, allocated) ==
    ~RatLess(free, Fraction(8, allocated))

StorageUnderutilized(free, allocated) == RatLess(Fraction(8, allocated), free)

StorageNearlyFull(free, allocated) == RatLess(free, Fraction(1, allocated))

\* Mutant: databases get the compute classifier's "Overprovisioned" when
\* the CPU is low and the storage underutilized.
ClassifyRDSLikeEC2(c, free, allocated, status0, notes0) ==
    IF RatLess(c, RatOfInt(THRESHOLDS.cpu)) /\ RatLess(Fraction(8, allocated), free)
    THEN [status |-> "Overprovisioned", notes |-> notes0]
    ELSE LET n1 == IF RatLess(c, RatOfInt(THRESHOLDS.cpu))
                   THEN Append(notes0, "Low CPU") ELSE notes0
             n2 == IF RatLess(Fraction(8, allocated), free)
                   THEN Append(n1, "Underutilized Storage")
                   ELSE IF RatLess(free, Fraction(1, allocated))
                   THEN Append(n1, "Storage Nearly Full") ELSE n1
         IN  [status |-> IF n2 # <<>> THEN "Review: " \o Join(n2) ELSE status0,
              notes  |-> n2]

\* Lines 96-104, entered with the status and notes that lines 93-94 set.
ClassifyRDS(c, free, allocated, status0, notes0) ==
    LET n1 == IF IsLow(c, THRESHOLDS.cpu)
              THEN Append(notes0, "Low CPU") ELSE notes0
        n2 == IF StorageUnderutilized(free, allocated)
              THEN Append(n1, "Underutilized Storage")
              ELSE IF StorageNearlyFull(free, allocated)
              THEN Append(n1, "Storage Nearly Full") ELSE n1
    IN  [status |-> IF n2 # <<>> THEN "Review: " \o Join(n2) ELSE status0,
         notes  |-> n2]

(***************************************************************************)
(* The unused-resource audit, lines 124-129 and 137.                       *)
(***************************************************************************)
\* Mutant: the State filter is missing.
AllVolumeIds(vols) == {vols[i].VolumeId : i \in 1..Len(vols)}

\* line 124
AttachedVolumeIds(vols) ==
    {vols[i].VolumeId : i \in {j \in 1..Len(vols) : vols[j].State = "in-use"}}

\* snap.get('VolumeId'), line 128
SnapVolumeId(snap) ==
    IF "VolumeId" \in DOMAIN snap THEN snap.VolumeId ELSE 0   \* 0 is None

SnapUnused(snap, attached) == SnapVolumeId(snap) \notin attached

\* lines 126-129
RECURSIVE UnusedSnapshots(_, _)
UnusedSnapshots(snaps, attached) ==
    IF snaps = <<>> THEN <<>>
    ELSE (IF SnapUnused(Head(snaps), attached)
          THEN <<Head(snaps).SnapshotId>> ELSE <<>>)
         \o UnusedSnapshots(Tail(snaps), attached)

\* Mutant: only the instance reference is looked at.
AddressWithoutInstance(a) == "InstanceId" \notin DOMAIN a

AddressFree(a) ==
    "InstanceId" \notin DOMAIN a /\ "NetworkInterfaceId" \notin DOMAIN a

\* line 137
RECURSIVE Unassociated(_)
Unassociated(addrs) ==
    IF addrs = <<>> THEN <<>>
    ELSE (IF AddressFree(Head(addrs)) THEN <<Head(addrs)>> ELSE <<>>)
         \o Unassociated(Tail(addrs))

RECURSIVE Field(_, _)
Field(recs, f) ==
    IF recs = <<>> THEN <<>> ELSE <<Head(recs)[f]>> \o Field(Tail(recs), f)

\* lines 46-47: the instances of all reservations, in loop order.
RECURSIVE Flatten(_)
Flatten(reservations) ==
    IF reservations = <<>> THEN <<>>
    ELSE Head(reservations).Instances \o Flatten(Tail(reservations))

\* line 50
RECURSIVE NameOf(_)
NameOf(tags) ==
    IF tags = <<>> THEN "N/A"
    ELSE IF Head(tags).Key = "Name" THEN Head(tags).Value
    ELSE NameOf(Tail(tags))

TagsOf(instance) == IF "Tags" \in DOMAIN instance THEN instance.Tags ELSE <<>>

(***************************************************************************)
(* What the provider may answer.  A workload w names, for each listing,    *)
(* the answers it may give and, for each metric, the sample values its     *)
(* datapoints may carry; a metric answer holds at most MaxPoints daily     *)
(* datapoints, in any order, or no Datapoints key at all.                  *)
(***************************************************************************)
Orders(k) == {f \in [1..k -> 1..k] : \A i, j \in 1..k : f[i] = f[j] => i = j}

DatapointSeqs(values) ==
    UNION {{[i \in 1..k |-> [Timestamp |-> ts[i], Average |-> vs[i]]] :
               ts \in Orders(k), vs \in [1..k -> values]} : k \in 0..MaxPoints}

MetricResponses(values) ==
    {[Datapoints |-> s] : s \in DatapointSeqs(values)}
        \cup {[ResponseMetadata |-> "200"]}

Instance(k) ==
    IF k = 1
    THEN [InstanceId |-> k, InstanceType |-> "t3.micro",
          Tags |-> <<[Key |-> "env", Value |-> "prod"], [Key |-> "Name", Value |-> "web"]>>]
    ELSE [InstanceId |-> k, InstanceType |-> "m5.large"]

\* Up to n running instances, in one reservation or split over two.
ReservationLists(n) ==
    {<<>>}
    \cup {<<[Instances |-> [i \in 1..k |-> Instance(i)]]>> : k \in 1..n}
    \cup {<<[Instances |-> <<Instance(1)>>],
            [Instances |-> [i \in 1..(k - 1) |-> Instance(i + 1)]]>> : k \in 2..n}

\* Up to n database instances; sizes(i) are the AllocatedStorage values (GB)
\* the i-th may have, 0 standing for a description without the key.
DBInstance(k, gb) ==
    IF gb = 0
    THEN [DBInstanceIdentifier |-> k, DBInstanceClass |-> "db.t3.small"]
    ELSE [DBInstanceIdentifier |-> k, DBInstanceClass |-> "db.t3.small",
          AllocatedStorage |-> gb]

DBLists(n, sizes) ==
    UNION {{[i \in 1..k |-> DBInstance(i, gb[i])] : gb \in [1..k -> sizes]} : k \in 0..n}

Volume(k, state) == [VolumeId |-> k, State |-> state]

VolumeLists(n, states) ==
    UNION {{[i \in 1..k |-> Volume(i, st[i])] : st \in [1..k -> states]} : k \in 0..n}

\* source 0 stands for a snapshot description without VolumeId.
Snapshot(k, source) ==
    IF source = 0 THEN [SnapshotId |-> k] ELSE [SnapshotId |-> k, VolumeId |-> source]

SnapshotLists(n, sources) ==
    UNION {{[i \in 1..k |-> Snapshot(i, src[i])] : src \in [1..k -> sources]} : k \in 0..n}

Address(k, kind) ==
    CASE kind = "free"      -> [PublicIp |-> k]
      [] kind = "instance"  -> [PublicIp |-> k, InstanceId |-> 1]
      [] kind = "interface" -> [PublicIp |-> k, NetworkInterfaceId |-> 1]
      [] OTHER              -> [PublicIp |-> k, InstanceId |-> 1, NetworkInterfaceId |-> 1]

AddressLists(n, kinds) ==
    UNION {{[i \in 1..k |-> Address(i, kd[i])] : kd \in [1..k -> kinds]} : k \in 0..n}

(***************************************************************************)
(* The script.                                                             *)
(***************************************************************************)
CallSites ==
    {"describe_instances", "ec2_cpu", "ec2_net_in", "ec2_net_out",
     "ec2_disk_read", "ec2_disk_write", "describe_db_instances", "rds_cpu",
     "rds_free_storage", "describe_volumes_available", "describe_snapshots",
     "describe_volumes", "describe_addresses"}

ec2_vars == <<instances, ec2_i, cpu, net_in, net_out, disk_read, disk_ops, net_total>>
rds_vars == <<dbs, db_i, free_storage, storage_allocated>>
audit_vars == <<volumes, snapshots, all_volumes, attached_volume_ids,
                unused_snapshots, addresses, unassociated>>

Line(kind, about) == [line |-> kind, about |-> about]

Init ==
    /\ pc = "start"
    /\ inflight = {}
    /\ failed = FALSE
    /\ out = <<>>
    /\ instances = <<>> /\ ec2_i = 0
    /\ cpu = <<0, 1>> /\ net_in = <<0, 1>> /\ net_out = <<0, 1>>
    /\ disk_read = <<0, 1>> /\ disk_ops = <<0, 1>> /\ net_total = <<0, 1>>
    /\ status = "" /\ notes = <<>> /\ fetched = {}
    /\ dbs = <<>> /\ db_i = 0
    /\ free_storage = <<0, 1>> /\ storage_allocated = 0
    /\ volumes = <<>> /\ snapshots = <<>> /\ all_volumes = <<>>
    /\ attached_volume_ids = {} /\ unused_snapshots = <<>>
    /\ addresses = <<>> /\ unassociated = <<>>

\* lines 41 and 44
Begin ==
    /\ pc = "start"
    /\ out' = <<Line("title", 0), Line("ec2_header", 0)>>
    /\ pc' = "describe_instances"
    /\ UNCHANGED <<failed, inflight, ec2_vars, status, notes, fetched, rds_vars, audit_vars>>

\* The provider call the script makes at each call site.
CallAt(site) ==
    LET iid  == instances[ec2_i].InstanceId
        dbid == dbs[db_i].DBInstanceIdentifier
    IN  CASE site = "describe_instances"    -> [api |-> "describe_instances"]
          [] site = "ec2_cpu"        -> MetricCall(iid, "CPUUtilization", "AWS/EC2", "Percent", "InstanceId")
          [] site = "ec2_net_in"     -> MetricCall(iid, "NetworkIn", "AWS/EC2", "Bytes", "InstanceId")
          [] site = "ec2_net_out"    -> MetricCall(iid, "NetworkOut", "AWS/EC2", "Bytes", "InstanceId")
          [] site = "ec2_disk_read"  -> MetricCall(iid, "DiskReadOps", "AWS/EC2", "Count", "InstanceId")
          [] site = "ec2_disk_write" -> MetricCall(iid, "DiskWriteOps", "AWS/EC2", "Count", "InstanceId")
          [] site = "describe_db_instances" -> [api |-> "describe_db_instances"]
          [] site = "rds_cpu"        -> MetricCall(dbid, "CPUUtilization", "AWS/RDS", "Percent", "DBInstanceIdentifier")
          [] site = "rds_free_storage" -> MetricCall(dbid, "FreeStorageSpace", "AWS/RDS", "Bytes", "DBInstanceIdentifier")
          [] site = "describe_volumes_available" -> [api |-> "describe_volumes", Filters |-> "available"]
          [] site = "describe_snapshots" -> [api |-> "describe_snapshots", OwnerIds |-> "self"]
          [] site = "describe_volumes"   -> [api |-> "describe_volumes"]
          [] site = "describe_addresses" -> [api |-> "describe_addresses"]

\* Mutant: the next request is sent along without waiting for the answer.
InvokeFanOut ==
    /\ pc \in CallSites
    /\ inflight = {}
    /\ inflight' = {CallAt(pc), [api |-> "prefetch"]}
    /\ UNCHANGED <<failed, pc, out, ec2_vars, status, notes, fetched, rds_vars, audit_vars>>

\* The script reaches a provider call and issues it; it then waits.
Invoke ==
    /\ pc \in CallSites
    /\ inflight = {}
    /\ inflight' = {CallAt(pc)}
    /\ UNCHANGED <<failed, pc, out, ec2_vars, status, notes, fetched, rds_vars, audit_vars>>

\* Mutant: a handler swallows the error and the report goes on with its
\* last listing.
RaiseSwallowed ==
    /\ pc \in CallSites
    /\ inflight # {}
    /\ inflight' = {}
    /\ failed' = TRUE
    /\ pc' = "describe_addresses"
    /\ UNCHANGED <<out, ec2_vars, status, notes, fetched, rds_vars, audit_vars>>

\* The call raises (ClientError, throttling, ...); nothing catches it.
Raise ==
    /\ pc \in CallSites
    /\ inflight # {}
    /\ inflight' = {}
    /\ failed' = TRUE
    /\ pc' = "crashed"
    /\ UNCHANGED <<out, ec2_vars, status, notes, fetched, rds_vars, audit_vars>>

\* Where the script goes once instance number i - 1 is done: the next
\* instance, or past the loop to lines 83-84.
AfterInstance(i, insts, printed) ==
    IF i <= Len(insts)
    THEN pc' = "ec2_cpu" /\ out' = printed
    ELSE pc' = "describe_db_instances" /\ out' = Append(printed, Line("rds_header", 0))

\* line 45
RetDescribeInstances(w) ==
    /\ pc = "describe_instances" /\ inflight # {}
    /\ \E response \in w.reservations :
          /\ instances' = Flatten(response)
          /\ ec2_i' = 1
          /\ AfterInstance(1, Flatten(response), out)
    /\ inflight' = {}
    /\ UNCHANGED <<failed, cpu, net_in, net_out, disk_read, disk_ops, net_total,
                   status, notes, fetched, rds_vars, audit_vars>>

\* What became of one metric fetch followed by mean(... or [0]): the run
\* goes on to `next` with the average, or dies of mean's StatisticsError.
Averaged(response, metric, seen, next, target) ==
    LET series == OrZero(get_metric(response))
    IN  /\ fetched' = seen \cup {<<metric, get_metric(response) # <<>> >>}
        /\ IF series = <<>>
           THEN pc' = "statistics_error" /\ target' = target
           ELSE pc' = next /\ target' = mean(series)

\* line 52
RetEC2CPU(w) ==
    /\ pc = "ec2_cpu" /\ inflight # {}
    /\ \E response \in MetricResponses(w.cpu) :
          Averaged(response, "CPUUtilization", {}, "ec2_net_in", cpu)
    /\ inflight' = {}
    /\ UNCHANGED <<failed, out, instances, ec2_i, net_in, net_out, disk_read, disk_ops,
                   net_total, status, notes, rds_vars, audit_vars>>

\* line 53
RetEC2NetIn(w) ==
    /\ pc = "ec2_net_in" /\ inflight # {}
    /\ \E response \in MetricResponses(w.net) :
          Averaged(response, "NetworkIn", fetched, "ec2_net_out", net_in)
    /\ inflight' = {}
    /\ UNCHANGED <<failed, out, instances, ec2_i, cpu, net_out, disk_read, disk_ops,
                   net_total, status, notes, rds_vars, audit_vars>>

\* line 54
RetEC2NetOut(w) ==
    /\ pc = "ec2_net_out" /\ inflight # {}
    /\ \E response \in MetricResponses(w.net) :
          Averaged(response, "NetworkOut", fetched, "ec2_disk_read", net_out)
    /\ inflight' = {}
    /\ UNCHANGED <<failed, out, instances, ec2_i, cpu, net_in, disk_read, disk_ops,
                   net_total, status, notes, rds_vars, audit_vars>>

\* line 55: the first operand of the sum
RetEC2DiskRead(w) ==
    /\ pc = "ec2_disk_read" /\ inflight # {}
    /\ \E response \in MetricResponses(w.disk) :
          Averaged(response, "DiskReadOps", fetched, "ec2_disk_write", disk_read)
    /\ inflight' = {}
    /\ UNCHANGED <<failed, out, instances, ec2_i, cpu, net_in, net_out, disk_ops,
                   net_total, status, notes, rds_vars, audit_vars>>

\* lines 55-56: the second operand, and the sum
RetEC2DiskWrite(w) ==
    /\ pc = "ec2_disk_write" /\ inflight # {}
    /\ \E response \in MetricResponses(w.disk) :
          LET series == OrZero(get_metric(response))
          IN  /\ fetched' = fetched \cup {<<"DiskWriteOps", get_metric(response) # <<>> >>}
              /\ IF series = <<>>
                 THEN pc' = "statistics_error" /\ UNCHANGED disk_ops
                 ELSE pc' = "ec2_report" /\ disk_ops' = RatAdd(disk_read, mean(series))
    /\ inflight' = {}
    /\ UNCHANGED <<failed, out, instances, ec2_i, cpu, net_in, net_out, disk_read,
                   net_total, status, notes, rds_vars, audit_vars>>

\* lines 58-80 and the loop's step to the next instance, with the status
\* and notes the classification starts from
ReportEC2From(status0, notes0) ==
    /\ pc = "ec2_report"
    /\ LET instance == instances[ec2_i]
           total    == RatAdd(net_in, net_out)
           verdict  == ClassifyEC2(cpu, total, disk_ops, status0, notes0)
           block    == Line("ec2", [id |-> instance.InstanceId,
                                    name |-> NameOf(TagsOf(instance)),
                                    type |-> instance.InstanceType,
                                    cpu |-> cpu, network |-> total,
                                    disk_ops |-> disk_ops,
                                    status |-> verdict.status])
       IN  /\ net_total' = total
           /\ status' = verdict.status
           /\ notes' = verdict.notes
           /\ ec2_i' = ec2_i + 1
           /\ AfterInstance(ec2_i + 1, instances, Append(out, block))
    /\ UNCHANGED <<failed, inflight, instances, cpu, net_in, net_out, disk_read, disk_ops,
                   fetched, rds_vars, audit_vars>>

\* Mutant: line 61 is missing, the notes of the last resource stay.
ReportEC2Stale == ReportEC2From("Utilized", notes)

\* lines 60-61 start every instance from "Utilized" and no notes
ReportEC2 == ReportEC2From("Utilized", <<>>)

\* Where the script goes once database number i - 1 is done: the next
\* database, or past the loop to lines 114-117.
AfterDB(i, list, printed) ==
    IF i <= Len(list)
    THEN pc' = "rds_cpu" /\ out' = printed
    ELSE pc' = "describe_volumes_available"
         /\ out' = Append(printed, Line("audit_header", 0))

\* line 84
RetDescribeDBInstances(w) ==
    /\ pc = "describe_db_instances" /\ inflight # {}
    /\ \E response \in w.dbs :
          /\ dbs' = response
          /\ db_i' = 1
          /\ AfterDB(1, response, out)
    /\ inflight' = {}
    /\ UNCHANGED <<failed, ec2_vars, status, notes, fetched, free_storage,
                   storage_allocated, audit_vars>>

\* line 89
RetRDSCPU(w) ==
    /\ pc = "rds_cpu" /\ inflight # {}
    /\ \E response \in MetricResponses(w.rds_cpu) :
          Averaged(response, "CPUUtilization", {}, "rds_free_storage", cpu)
    /\ inflight' = {}
    /\ UNCHANGED <<failed, out, instances, ec2_i, net_in, net_out, disk_read, disk_ops,
                   net_total, status, notes, rds_vars, audit_vars>>

\* line 90
RetRDSFreeStorage(w) ==
    /\ pc = "rds_free_storage" /\ inflight # {}
    /\ \E response \in MetricResponses(w.free) :
          Averaged(response, "FreeStorageSpace", fetched, "rds_report", free_storage)
    /\ inflight' = {}
    /\ UNCHANGED <<failed, out, ec2_vars, status, notes, dbs, db_i, storage_allocated,
                   audit_vars>>

\* lines 91-111 (lines 93-94 start every database from "Utilized" and no
\* notes), and the loop's step to the next database
ReportRDS ==
    /\ pc = "rds_report"
    /\ LET db        == dbs[db_i]
           allocated == AllocatedOf(db)
           verdict   == ClassifyRDS(cpu, free_storage, allocated, "Utilized", <<>>)
           block     == Line("rds", [id |-> db.DBInstanceIdentifier,
                                     type |-> db.DBInstanceClass,
                                     cpu |-> cpu, free |-> free_storage,
                                     allocated |-> allocated,
                                     status |-> verdict.status])
       IN  /\ storage_allocated' = allocated
           /\ status' = verdict.status
           /\ notes' = verdict.notes
           /\ db_i' = db_i + 1
           /\ AfterDB(db_i + 1, dbs, Append(out, block))
    /\ UNCHANGED <<failed, inflight, ec2_vars, fetched, dbs, free_storage, audit_vars>>

\* lines 117-120
RetDescribeVolumesAvailable(w) ==
    /\ pc = "describe_volumes_available" /\ inflight # {}
    /\ \E response \in w.available :
          /\ volumes' = response
          /\ out' = Append(out, Line("volumes", Field(response, "VolumeId")))
    /\ pc' = "describe_snapshots"
    /\ inflight' = {}
    /\ UNCHANGED <<failed, ec2_vars, status, notes, fetched, rds_vars, snapshots,
                   all_volumes, attached_volume_ids, unused_snapshots,
                   addresses, unassociated>>

\* line 123
RetDescribeSnapshots(w) ==
    /\ pc = "describe_snapshots" /\ inflight # {}
    /\ \E response \in w.snapshots : snapshots' = response
    /\ pc' = "describe_volumes"
    /\ inflight' = {}
    /\ UNCHANGED <<failed, out, ec2_vars, status, notes, fetched, rds_vars, volumes,
                   all_volumes, attached_volume_ids, unused_snapshots,
                   addresses, unassociated>>

\* lines 124-133
RetDescribeVolumes(w) ==
    /\ pc = "describe_volumes" /\ inflight # {}
    /\ \E response \in w.volumes :
          LET attached == AttachedVolumeIds(response)
              unused   == UnusedSnapshots(snapshots, attached)
          IN  /\ all_volumes' = response
              /\ attached_volume_ids' = attached
              /\ unused_snapshots' = unused
              /\ out' = Append(out, Line("snapshots", unused))
    /\ pc' = "describe_addresses"
    /\ inflight' = {}
    /\ UNCHANGED <<failed, ec2_vars, status, notes, fetched, rds_vars, volumes, snapshots,
                   addresses, unassociated>>

\* lines 136-142
RetDescribeAddresses(w) ==
    /\ pc = "describe_addresses" /\ inflight # {}
    /\ \E response \in w.addresses :
          /\ addresses' = response
          /\ unassociated' = Unassociated(response)
          /\ out' = out \o <<Line("addresses", Field(Unassociated(response), "PublicIp")),
                             Line("complete", 0)>>
    /\ pc' = "done"
    /\ inflight' = {}
    /\ UNCHANGED <<failed, ec2_vars, status, notes, fetched, rds_vars, volumes, snapshots,
                   all_volumes, attached_volume_ids, unused_snapshots>>

Next(w) ==
    \/ Begin
    \/ Invoke
    \/ Raise
    \/ RetDescribeInstances(w)
    \/ RetEC2CPU(w)
    \/ RetEC2NetIn(w)
    \/ RetEC2NetOut(w)
    \/ RetEC2DiskRead(w)
    \/ RetEC2DiskWrite(w)
    \/ ReportEC2
    \/ RetDescribeDBInstances(w)
    \/ RetRDSCPU(w)
    \/ RetRDSFreeStorage(w)
    \/ ReportRDS
    \/ RetDescribeVolumesAvailable(w)
    \/ RetDescribeSnapshots(w)
    \/ RetDescribeVolumes(w)
    \/ RetDescribeAddresses(w)

(***************************************************************************)
(* Workloads.                                                              *)
(***************************************************************************)
\* The whole report over several instances and databases, few metric values.
PipelineWorkload ==
    [reservations |-> ReservationLists(MaxInstances),
     cpu          |-> {80},
     net          |-> {1000000},
     disk         |-> {},
     dbs          |-> DBLists(MaxDBs, {5}),
     rds_cpu      |-> {80},
     free         |-> {},
     available    |-> VolumeLists(1, {"available"}),
     snapshots    |-> SnapshotLists(1, {1}),
     volumes      |-> {<<Volume(1, "in-use")>>},
     addresses    |-> AddressLists(1, {"free"})]

\* One compute instance with metrics on both sides of every threshold.
ComputeWorkload ==
    [reservations |-> ReservationLists(1),
     cpu          |-> {10, 70},
     net          |-> {250, 999750},
     disk         |-> {5, 95},
     dbs          |-> DBLists(1, {5}) \ {<<>>},
     rds_cpu      |-> {},
     free         |-> {},
     available    |-> {<<>>},
     snapshots    |-> {<<>>},
     volumes      |-> {<<>>},
     addresses    |-> {<<>>}]

\* One database with free storage around 80% and 10% of what is allocated.
DatabaseWorkload ==
    [reservations |-> ReservationLists(1) \ {<<>>},
     cpu          |-> {},
     net          |-> {},
     disk         |-> {},
     dbs          |-> DBLists(1, {0, 100}),
     rds_cpu      |-> {20, 60},
     free         |-> {5120, 10240, 81920, 92160},
     available    |-> {<<>>},
     snapshots    |-> {<<>>},
     volumes      |-> {<<>>},
     addresses    |-> {<<>>}]

\* Volumes, snapshots and addresses of every kind.
AuditWorkload ==
    [reservations |-> ReservationLists(1) \ {<<>>},
     cpu          |-> {},
     net          |-> {},
     disk         |-> {},
     dbs          |-> DBLists(1, {5}) \ {<<>>},
     rds_cpu      |-> {},
     free         |-> {},
     available    |-> VolumeLists(1, {"available"}),
     snapshots    |-> SnapshotLists(MaxSnapshots, 0..MaxVolumes + 1),
     volumes      |-> VolumeLists(MaxVolumes, {"in-use", "available"}),
     addresses    |-> AddressLists(MaxAddresses, {"free", "instance", "interface", "both"})]

Spec == Init /\ [][Next(PipelineWorkload)]_vars

SpecCompute == Init /\ [][Next(ComputeWorkload)]_vars

SpecDatabase == Init /\ [][Next(DatabaseWorkload)]_vars

SpecAudit == Init /\ [][Next(AuditWorkload)]_vars

\* The script runs on whenever it can: it is one sequential process.
FairSpec == Spec /\ WF_vars(Next(PipelineWorkload))

(***************************************************************************)
(* Properties.                                                             *)
(***************************************************************************)
\* The script has just classified and printed a compute instance: cpu,
\* net_in, net_out, disk_ops, status and notes are that instance's.
EC2Reported == pc \in {"ec2_cpu", "describe_db_instances"} /\ ec2_i > 1

\* The script has just classified and printed a database instance.
RDSReported == pc \in {"rds_cpu", "describe_volumes_available"} /\ db_i > 1

\* The last block of a kind that was printed.
LastBlock(kind) ==
    LET at == {i \in 1..Len(out) : out[i].line = kind}
    IN  out[CHOOSE i \in at : \A j \in at : j <= i].about

Below(value, n) == value[1] < n * value[2]

CpuLow == Below(cpu, 40)
NetworkLow == Below(RatAdd(net_in, net_out), 1000000)
DiskOpsLow == Below(disk_ops, 100)

\* C1: a compute instance whose average CPU is below 40, whose network in
\* plus out is below 1,000,000 and whose disk ops are below 100 is printed
\* as "Overprovisioned", with an empty note list.
C1_AllLowIsOverprovisioned ==
    (EC2Reported /\ CpuLow /\ NetworkLow /\ DiskOpsLow)
        => /\ status = "Overprovisioned"
           /\ notes = <<>>
           /\ LastBlock("ec2").status = "Overprovisioned"

\* The scenario of C1: CPU 10, network 500, disk ops 5.
C1_Witness ==
    /\ EC2Reported
    /\ cpu = <<10, 1>> /\ RatAdd(net_in, net_out) = <<500, 1>> /\ disk_ops = <<5, 1>>
    /\ LastBlock("ec2").status = "Overprovisioned"

LowNotes ==
    (IF CpuLow THEN <<"Low CPU">> ELSE <<>>)
        \o (IF NetworkLow THEN <<"Low Network">> ELSE <<>>)
        \o (IF DiskOpsLow THEN <<"Low Disk Ops">> ELSE <<>>)

\* C2: when not all three metrics are low, the notes are the low metrics in
\* the order Low CPU, Low Network, Low Disk Ops (a value equal to its
\* threshold is not low); the status is "Review" with those notes when there
\* is one, and "Utilized" when there is none.
C2_NotesAreTheLowMetrics ==
    (EC2Reported /\ ~(CpuLow /\ NetworkLow /\ DiskOpsLow))
        => /\ notes = LowNotes
           /\ Len(notes) <= 2
           /\ status = (IF notes = <<>> THEN "Utilized" ELSE "Review: " \o Join(LowNotes))
           /\ LastBlock("ec2").status = status

\* Exactly one metric is low, and the CPU sits exactly on its threshold.
C2_Witness ==
    /\ EC2Reported
    /\ cpu = <<40, 1>> /\ NetworkLow /\ ~DiskOpsLow
    /\ notes = <<"Low Network">>
    /\ LastBlock("ec2").status = "Review: Low Network"

\* free storage compared with tenths of the allocated storage
FreeAbove(tenths) == 10 * free_storage[1] > tenths * storage_allocated * free_storage[2]
FreeBelow(tenths) == 10 * free_storage[1] < tenths * storage_allocated * free_storage[2]
FreeExactly(tenths) == 10 * free_storage[1] = tenths * storage_allocated * free_storage[2]

Noted(note) == \E i \in 1..Len(notes) : notes[i] = note

\* C3: free storage of exactly 80% of the allocated storage does not get
\* "Underutilized Storage" and exactly 10% does not get "Storage Nearly Full";
\* anything above 80% gets the first and anything below 10% gets the second.
C3_StorageComparisonsAreStrict ==
    RDSReported
        => /\ FreeExactly(8) => ~Noted("Underutilized Storage")
           /\ FreeExactly(1) => ~Noted("Storage Nearly Full")
           /\ FreeAbove(8) => Noted("Underutilized Storage")
           /\ FreeBelow(1) => Noted("Storage Nearly Full")

\* 100 GB allocated and exactly 80 GB free.
C3_Witness ==
    /\ RDSReported
    /\ storage_allocated = 100 * 1024 /\ free_storage = <<80 * 1024, 1>>
    /\ ~Noted("Underutilized Storage")

\* C4: a database is "Review" exactly when Low CPU, Underutilized Storage or
\* Storage Nearly Full fired and "Utilized" otherwise, never "Overprovisioned",
\* and never carries both storage notes.
C4_DatabaseStatus ==
    RDSReported
        => /\ (CpuLow \/ FreeAbove(8) \/ FreeBelow(1)) <=> notes # <<>>
           /\ status = (IF notes = <<>> THEN "Utilized" ELSE "Review: " \o Join(notes))
           /\ status # "Overprovisioned"
           /\ LastBlock("rds").status = status
           /\ ~(Noted("Underutilized Storage") /\ Noted("Storage Nearly Full"))

\* Low CPU together with underutilized storage is still only "Review".
C4_Witness ==
    /\ RDSReported
    /\ CpuLow /\ FreeAbove(8)
    /\ LastBlock("rds").status = "Review: Low CPU, Underutilized Storage"

\* The unused-snapshot list has been computed.
SnapshotsAudited == pc \in {"describe_addresses", "done"}

InUse(id) == \E j \in 1..Len(all_volumes) :
                all_volumes[j].VolumeId = id /\ all_volumes[j].State = "in-use"

SourceInUse(snap) == "VolumeId" \in DOMAIN snap /\ InUse(snap.VolumeId)

Listed(list, id) == \E j \in 1..Len(list) : list[j] = id

\* C5: a snapshot is in the unused-snapshot list exactly when its source
\* volume is not a volume in state "in-use"; that includes a snapshot with no
\* source volume and one whose source volume is "available".
C5_UnusedSnapshots ==
    SnapshotsAudited
        => /\ \A i \in 1..Len(snapshots) :
                 Listed(unused_snapshots, snapshots[i].SnapshotId)
                     <=> ~SourceInUse(snapshots[i])
           /\ \A j \in 1..Len(unused_snapshots) :
                 \E i \in 1..Len(snapshots) : snapshots[i].SnapshotId = unused_snapshots[j]

\* One snapshot of an in-use volume is left out, one of an available volume
\* is listed.
C5_Witness ==
    /\ SnapshotsAudited
    /\ Len(snapshots) = 2
    /\ SourceInUse(snapshots[1])
    /\ "VolumeId" \in DOMAIN snapshots[2]
    /\ \E j \in 1..Len(all_volumes) :
          all_volumes[j].VolumeId = snapshots[2].VolumeId
              /\ all_volumes[j].State = "available"
    /\ unused_snapshots = <<snapshots[2].SnapshotId>>

\* C6: an address is in the unassociated list exactly when it has neither an
\* instance reference nor a network-interface reference.
C6_UnassociatedAddresses ==
    pc = "done"
        => /\ \A i \in 1..Len(addresses) :
                 (\E j \in 1..Len(unassociated) :
                     unassociated[j].PublicIp = addresses[i].PublicIp)
                     <=> ("InstanceId" \notin DOMAIN addresses[i]
                          /\ "NetworkInterfaceId" \notin DOMAIN addresses[i])
           /\ Len(unassociated) <= Len(addresses)

\* An address with only a network-interface reference is left out, next to a
\* free one that is listed.
C6_Witness ==
    /\ pc = "done"
    /\ Len(addresses) = 2
    /\ DOMAIN addresses[1] = {"PublicIp", "NetworkInterfaceId"}
    /\ DOMAIN addresses[2] = {"PublicIp"}
    /\ Len(unassociated) = 1 /\ unassociated[1].PublicIp = addresses[2].PublicIp

Completed == \E i \in 1..Len(out) : out[i].line = "complete"

\* C7: once a provider call has failed, the run is over: no provider call is
\* made or outstanding, nothing more is printed, what was printed stays, and
\* the completion marker is never printed.
C7_FailureEndsTheRun ==
    [][failed' => /\ pc' = "crashed"
                  /\ inflight' = {}
                  /\ out' = out
                  /\ ~Completed']_vars

\* A call failed after the first compute block was printed.
C7_Witness ==
    /\ failed /\ pc = "crashed"
    /\ \E i \in 1..Len(out) : out[i].line = "ec2"
    /\ ~Completed

NoData(metric) == <<metric, FALSE>> \in fetched

Zero == <<0, 1>>

\* C8: a metric without datapoints averages to 0 and the run does not fail
\* on it; a compute instance without data for all five metrics is
\* "Overprovisioned", a database without data and with allocated storage gets
\* "Low CPU" and "Storage Nearly Full".
C8_NoDataIsZero ==
    /\ pc # "statistics_error"
    /\ (pc \in {"ec2_net_in", "ec2_net_out", "ec2_disk_read", "ec2_disk_write",
                "ec2_report", "rds_free_storage", "rds_report"}
            /\ NoData("CPUUtilization")) => cpu = Zero
    /\ (pc \in {"ec2_net_out", "ec2_disk_read", "ec2_disk_write", "ec2_report"}
            /\ NoData("NetworkIn")) => net_in = Zero
    /\ (pc \in {"ec2_disk_read", "ec2_disk_write", "ec2_report"}
            /\ NoData("NetworkOut")) => net_out = Zero
    /\ (pc \in {"ec2_disk_write", "ec2_report"} /\ NoData("DiskReadOps"))
            => disk_read = Zero
    /\ (pc = "ec2_report" /\ NoData("DiskReadOps") /\ NoData("DiskWriteOps"))
            => disk_ops = Zero
    /\ (pc = "rds_report" /\ NoData("FreeStorageSpace")) => free_storage = Zero
    /\ (EC2Reported /\ \A e \in fetched : e[2] = FALSE)
            => LastBlock("ec2").status = "Overprovisioned"
    /\ (RDSReported /\ (\A e \in fetched : e[2] = FALSE) /\ storage_allocated > 0)
            => /\ notes = <<"Low CPU", "Storage Nearly Full">>
               /\ LastBlock("rds").status = "Review: Low CPU, Storage Nearly Full"

\* A database without any data, reported after a compute instance without
\* any data.
C8_Witness ==
    /\ RDSReported
    /\ fetched = {<<"CPUUtilization", FALSE>>, <<"FreeStorageSpace", FALSE>>}
    /\ storage_allocated > 0
    /\ notes = <<"Low CPU", "Storage Nearly Full">>
    /\ \E i \in 1..Len(out) :
          /\ out[i].line = "ec2"
          /\ out[i].about.cpu = Zero /\ out[i].about.network = Zero
          /\ out[i].about.status = "Overprovisioned"

Blocks(kind) == {i \in 1..Len(out) : out[i].line = kind}

Rank(kind) ==
    CASE kind = "title"        -> 1
      [] kind = "ec2_header"   -> 2
      [] kind = "ec2"          -> 3
      [] kind = "rds_header"   -> 4
      [] kind = "rds"          -> 5
      [] kind = "audit_header" -> 6
      [] kind = "volumes"      -> 7
      [] kind = "snapshots"    -> 8
      [] kind = "addresses"    -> 9
      [] kind = "complete"     -> 10

SectionsInOrder ==
    \A i, j \in 1..Len(out) :
        i < j => /\ Rank(out[i].line) <= Rank(out[j].line)
                 /\ Rank(out[i].line) = Rank(out[j].line)
                        => out[i].line \in {"ec2", "rds"}

FetchedMetrics == {e[1] : e \in fetched}

\* A step that prints a resource's block is taken with no call outstanding
\* and with every metric of that resource answered.
BlockAfterItsFetches ==
    (Len(out') > Len(out))
        => /\ inflight = {} \/ pc \notin {"ec2_report", "rds_report"}
           /\ pc = "ec2_report" <=> \E i \in Len(out) + 1..Len(out') : out'[i].line = "ec2"
           /\ pc = "rds_report" <=> \E i \in Len(out) + 1..Len(out') : out'[i].line = "rds"
           /\ pc = "ec2_report"
                 => FetchedMetrics = {"CPUUtilization", "NetworkIn", "NetworkOut",
                                      "DiskReadOps", "DiskWriteOps"}
           /\ pc = "rds_report"
                 => FetchedMetrics = {"CPUUtilization", "FreeStorageSpace"}

\* C10: in a run, at most one provider call is outstanding at any time, a
\* resource's block is printed only after all its metric fetches returned,
\* the sections come in the order compute, database, volumes, snapshots,
\* addresses, and unless a provider call fails the run ends with the
\* completion marker printed once, after everything else.
C10_SequentialRun ==
    /\ [](Cardinality(inflight) <= 1)
    /\ [][BlockAfterItsFetches]_vars
    /\ []SectionsInOrder
    /\ [](pc = "done" <=> Completed)
    /\ <>(failed \/ (pc = "done" /\ out[Len(out)].line = "complete"))

\* A finished report with a compute block and a database block.
C10_Witness ==
    /\ pc = "done"
    /\ Blocks("ec2") # {} /\ Blocks("rds") # {}
    /\ out[Len(out)].line = "complete"

====
